---- MODULE Spec2Model ----
(***************************************************************************)
(* plot.py of opendc-simulator: the script that reads the job and task     *)
(* metric CSV files of every (setup, trace, scheduler), reduces each       *)
(* column to [mean, std, min, max], normalizes every metric sub-group of a *)
(* subplot by the sub-group's maximum and saves one PDF per setup and      *)
(* pass.                                                                   *)
(*                                                                         *)
(* Numbers.  numpy computes in IEEE doubles; the model computes the same   *)
(* quantities exactly.  A number is a record                               *)
(*     [k |-> "fin", n |-> n, d |-> d, rt |-> FALSE]   the rational n/d    *)
(*     [k |-> "fin", n |-> n, d |-> d, rt |-> TRUE]    sign(n)*sqrt(|n|/d) *)
(*     [k |-> "nan" | "pinf" | "ninf", ...]            NaN, +inf, -inf     *)
(* always in lowest terms with d > 0, so that equal numbers are equal      *)
(* records.  The square-root form is needed for np.std only.               *)
(***************************************************************************)
EXTENDS Integers, Sequences, FiniteSets, TLC

(***************************************************************************)
(* Bounds of the model (not program constants).                            *)
(***************************************************************************)
\* cell values of the CSV files are drawn from -1..MaxVal
MaxVal == 1
\* longest column handed to the aggregator on its own (AggSpec)
MaxLen == 3
\* most rows of the one measurement that has several rows (SubSpec)
MaxRows == 2
\* value of every cell outside the metric column that is varied
BaseVal == 2

Vals == (-1)..MaxVal

(***************************************************************************)
(* The hard-coded grid, plot.py lines 10-13, 46 and 136.                   *)
(***************************************************************************)
setups == <<"setup", "setup-heterogeneous", "setup-distributed">>
traces == <<"shell", "askalon", "pegasus">>
schedulers == <<"FCP", "Lottery", "DS">>

Passes == <<"job", "task">>

\* the metric keys of a pass, in the order of the list `metrics`
metrics(p) ==
    IF p = "job" THEN <<"CP", "WT", "MS">> ELSE <<"EX", "WT", "TA">>

\* the CSV column read into each metric of a pass, in the same order
columns(p) ==
    IF p = "job" THEN <<"critical_path", "waiting_time", "makespan">>
                 ELSE <<"execution", "waiting", "turnaround">>

\* the file name of a pass inside the result directory
MetricsFile(p) == IF p = "job" THEN "/job_metrics.csv" ELSE "/task_metrics.csv"

\* the path opened for (setup, trace, sched)
PathOf(p, setup, trace, sched) ==
    "./results/" \o trace \o "_" \o setup \o "_" \o sched \o MetricsFile(p)

\* PdfName with the suffix of the job pass in both passes
PdfNameJobSuffix(p, setup) == setup \o "_job.pdf"

\* the name handed to plt.savefig
PdfName(p, setup) == setup \o (IF p = "job" THEN "_job.pdf" ELSE "_task.pdf")

(***************************************************************************)
(* Exact arithmetic.                                                       *)
(***************************************************************************)
Abs(x) == IF x < 0 THEN -x ELSE x

Sign(x) == IF x < 0 THEN -1 ELSE IF x = 0 THEN 0 ELSE 1

RECURSIVE GCD(_, _)
GCD(a, b) == IF b = 0 THEN a ELSE GCD(b, a % b)

NaN == [k |-> "nan", n |-> 0, d |-> 1, rt |-> FALSE]
PInf == [k |-> "pinf", n |-> 0, d |-> 1, rt |-> FALSE]
NInf == [k |-> "ninf", n |-> 0, d |-> 1, rt |-> FALSE]

\* the rational n/d (d # 0) in lowest terms
Rat(n, d) ==
    LET g == GCD(Abs(n), Abs(d))
        sg == IF d < 0 THEN -1 ELSE 1
    IN [k |-> "fin", n |-> sg * (n \div g), d |-> sg * (d \div g), rt |-> FALSE]

IsSquare(x) == \E r \in 0..x : r * r = x

ISqrt(x) == CHOOSE r \in 0..x : r * r = x

\* sign(n/d) * sqrt(|n/d|) (d # 0); a rational when |n/d| is a square of one
Root(n, d) ==
    LET q == Rat(n, d)
    IN IF IsSquare(Abs(q.n)) /\ IsSquare(q.d)
       THEN Rat(Sign(q.n) * ISqrt(Abs(q.n)), ISqrt(q.d))
       ELSE [q EXCEPT !.rt = TRUE]

IsFin(x) == x.k = "fin"
IsNaN(x) == x.k = "nan"

RAdd(x, y) == Rat(x.n * y.d + y.n * x.d, x.d * y.d)
RSub(x, y) == Rat(x.n * y.d - y.n * x.d, x.d * y.d)
RMul(x, y) == Rat(x.n * y.n, x.d * y.d)

\* sign(x) * x^2 of a finite number, as a rational: order-preserving
SSq(x) == IF x.rt THEN Rat(x.n, x.d) ELSE Rat(Sign(x.n) * x.n * x.n, x.d * x.d)

\* x <= y for numbers other than NaN
Leq(x, y) ==
    CASE x.k = "ninf" \/ y.k = "pinf" -> TRUE
      [] x.k = "pinf" \/ y.k = "ninf" -> FALSE
      [] OTHER -> SSq(x).n * SSq(y).d <= SSq(y).n * SSq(x).d

\* x + c for a rational constant c, as IEEE does for NaN and the infinities
AddConst(x, c) == IF IsFin(x) THEN RAdd(x, c) ELSE x

\* Div with every division by zero giving NaN
DivZeroIsNaN(x, m) ==
    CASE IsNaN(x) \/ IsNaN(m) -> NaN
      [] ~IsFin(m) -> IF IsFin(x) THEN Rat(0, 1) ELSE NaN
      [] m.n = 0 -> NaN
      [] ~IsFin(x) -> IF (x.k = "pinf") = (m.n > 0) THEN PInf ELSE NInf
      [] x.rt -> Root(Sign(m.n) * x.n * m.d * m.d, x.d * m.n * m.n)
      [] OTHER -> Rat(x.n * m.d, x.d * m.n)

\* x / m as numpy's true_divide computes it for a divisor m that is no root:
\* 0/0 is NaN, x/0 is +inf or -inf by the sign of x, and no error is raised
Div(x, m) ==
    CASE IsNaN(x) \/ IsNaN(m) -> NaN
      [] ~IsFin(m) -> IF IsFin(x) THEN Rat(0, 1) ELSE NaN
      [] m.n = 0 ->
           IF IsFin(x)
           THEN (IF x.n = 0 THEN NaN ELSE IF x.n > 0 THEN PInf ELSE NInf)
           ELSE x
      [] ~IsFin(x) ->
           IF (x.k = "pinf") = (m.n > 0) THEN PInf ELSE NInf
      [] x.rt -> Root(Sign(m.n) * x.n * m.d * m.d, x.d * m.n * m.n)
      [] OTHER -> Rat(x.n * m.d, x.d * m.n)

Range(q) == {q[j] : j \in 1..Len(q)}

\* Python's q[a:b] for 0 <= a <= b <= len(q)
Slice(q, a, b) == SubSeq(q, a + 1, b)

Nums(S) == [j \in 1..Len(S) |-> Rat(S[j], 1)]

RECURSIVE SumInts(_)
SumInts(S) == IF S = <<>> THEN 0 ELSE Head(S) + SumInts(Tail(S))

RECURSIVE SumRats(_)
SumRats(q) == IF q = <<>> THEN Rat(0, 1) ELSE RAdd(Head(q), SumRats(Tail(q)))

(***************************************************************************)
(* numpy's reductions, as plot.py calls them on a list.                    *)
(***************************************************************************)
\* np.max of a non-empty list: NaN as soon as one element is NaN
NpMax(q) ==
    IF \E x \in Range(q) : IsNaN(x) THEN NaN
    ELSE CHOOSE x \in Range(q) : \A y \in Range(q) : Leq(y, x)

\* np.min of a non-empty list
NpMin(q) ==
    IF \E x \in Range(q) : IsNaN(x) THEN NaN
    ELSE CHOOSE x \in Range(q) : \A y \in Range(q) : Leq(x, y)

\* np.mean with the integer division sum // n
NpMeanFloor(S) == IF S = <<>> THEN NaN ELSE Rat(SumInts(S) \div Len(S), 1)

\* np.mean of a list of integers: sum / n, NaN (a warning) for the empty list
NpMean(S) == IF S = <<>> THEN NaN ELSE Rat(SumInts(S), Len(S))

\* np.std of a list of integers, ddof = 0: sqrt(mean(|x - mean|^2))
NpStd(S) ==
    IF S = <<>> THEN NaN
    ELSE LET mu == NpMean(S)
             dev == [j \in 1..Len(S) |-> RSub(Rat(S[j], 1), mu)]
             sq == [j \in 1..Len(S) |-> RMul(dev[j], dev[j])]
             var == RMul(SumRats(sq), Rat(1, Len(S)))
         IN Root(var.n, var.d)

(***************************************************************************)
(* The result files.  A file that exists has a header (the set of its      *)
(* column names) and rows; a cell is the text of an integer, [int |-> TRUE,*)
(* v |-> the integer], or some other text, [int |-> FALSE, v |-> 0].       *)
(***************************************************************************)
Idx == 0..2

IntCell(v) == [int |-> TRUE, v |-> v]
TextCell == [int |-> FALSE, v |-> 0]

Missing == [exists |-> FALSE, header |-> {}, rows |-> <<>>]

\* A data set: in every file the cells of the metric column `focus` are the
\* column cols[r] of one of three schedulers' measurements and every other
\* cell is BaseVal.  The three measurements rotate over the schedulers from
\* one (setup, trace) to the next, so that the subplots differ.
DataFile(d, p, si, ti, ki) ==
    LET c == d.cols[(ki + ti + si) % 3]
    IN [exists |-> TRUE,
        header |-> Range(columns(p)),
        rows |-> [j \in 1..Len(c) |->
                    [col \in Range(columns(p)) |->
                        IF col = columns(p)[d.focus + 1]
                        THEN IntCell(c[j]) ELSE IntCell(BaseVal)]]]

\* the files on which the loader or the aggregator raises: no file, a file
\* without rows, a header without the second column (with and without
\* rows), a cell of the first row that is no integer
FaultyFiles(p, good) ==
    {Missing,
     [good EXCEPT !.rows = <<>>],
     [good EXCEPT !.header = @ \ {columns(p)[2]}],
     [good EXCEPT !.header = @ \ {columns(p)[2]}, !.rows = <<>>],
     [good EXCEPT !.rows[1][columns(p)[2]] = TextCell]}

\* an exception and the statement that raised it
Raised(type, at) == [type |-> type, at |-> at]
NotRaised == Raised("none", "none")

\* int(row[col]) of one row for the three columns of the pass in the order
\* of lines 32-34 (122-124): the first exception, or "none"
RowError(file, p, j) ==
    LET bad == {g \in 1..3 : \/ columns(p)[g] \notin file.header
                             \/ ~file.rows[j][columns(p)[g]].int}
    IN IF bad = {} THEN "none"
       ELSE LET g == CHOOSE x \in bad : \A y \in bad : x <= y
            IN IF columns(p)[g] \notin file.header THEN "KeyError" ELSE "ValueError"

\* the csv.DictReader loop from row j on: each row appends one integer to
\* each of the three lists; an exception ends the loop
RECURSIVE ReadRows(_, _, _, _)
ReadRows(file, p, j, cols) ==
    IF j > Len(file.rows) THEN [raised |-> NotRaised, cols |-> cols]
    ELSE IF RowError(file, p, j) # "none"
    THEN [raised |-> Raised(RowError(file, p, j), "int(row[...])"), cols |-> cols]
    ELSE ReadRows(file, p, j + 1,
                  <<Append(cols[1], file.rows[j][columns(p)[1]].v),
                    Append(cols[2], file.rows[j][columns(p)[2]].v),
                    Append(cols[3], file.rows[j][columns(p)[3]].v)>>)

\* open() and the loop over the rows: the three columns read, or the
\* exception raised
ReadFile(file, p) ==
    IF ~file.exists
    THEN [raised |-> Raised("FileNotFoundError", "open"), cols |-> <<>>]
    ELSE ReadRows(file, p, 1, <<<<>>, <<>>, <<>>>>)

\* Aggregate with a reduction that returns NaN for the empty list
AggregateNoRaise(S) ==
    IF S = <<>> THEN [raised |-> NotRaised, value |-> <<NaN, NaN, NaN, NaN>>]
    ELSE [raised |-> NotRaised,
          value |-> <<NpMean(S), NpStd(S), NpMin(Nums(S)), NpMax(Nums(S))>>]

\* [np.mean(S), np.std(S), np.min(S), np.max(S)]: np.mean and np.std of an
\* empty list are NaN, np.min of an empty list raises ValueError, and then
\* the list is never built
Aggregate(S) ==
    IF S = <<>> THEN [raised |-> Raised("ValueError", "np.min"), value |-> <<>>]
    ELSE [raised |-> NotRaised,
          value |-> <<NpMean(S), NpStd(S), NpMin(Nums(S)), NpMax(Nums(S))>>]

(***************************************************************************)
(* The state of a run.                                                     *)
(***************************************************************************)
VARIABLES
    data,       \* the measurements in the result files (never written)
    pc,         \* "load", "flatten", "normalize", "draw", "save", "done",
                \* "failed" (an exception ended the run)
    pass,       \* "job" (lines 15-103) or "task" (lines 105-190)
    s, t, k,    \* the setup, trace and scheduler the loops are at, from 0
    i,          \* the metric sub-group the normalization loop is at
    results,    \* <<setup, trace, sched>> -> metric -> <<mean, std, min, max>>
    avg, std, mn, mx,   \* the four lists of the subplot under construction
    axes,       \* the subplots drawn into the current figure
    pdfs,       \* the names of the files written by plt.savefig, in order
    opened,     \* the paths opened so far, in order
    csvfile,    \* the file opened last (Missing before the first open)
    raised      \* the exception that ended the run, or NotRaised

vars == <<data, pc, pass, s, t, k, i, results, avg, std, mn, mx, axes, pdfs,
          opened, csvfile, raised>>

IndexOf(q, x) == CHOOSE j \in Idx : q[j + 1] = x

Triple(si, ti, ki) == <<setups[si + 1], traces[ti + 1], schedulers[ki + 1]>>

AllTriples == {Triple(si, ti, ki) : si \in Idx, ti \in Idx, ki \in Idx}

NoLists == /\ avg = <<>> /\ std = <<>> /\ mn = <<>> /\ mx = <<>>

\* lines 25-37 (115-127) for one file: the table after the file was loaded,
\* or the exception; results[...][sched] = {} is set before the file is
\* opened, and the three summaries are stored one after the other
LoadOne(res, file, p, si, ti, ki) ==
    LET rd == ReadFile(file, p)
        key == Triple(si, ti, ki)
        withKey == (key :> <<>>) @@ res
        a1 == Aggregate(rd.cols[1])
        a2 == Aggregate(rd.cols[2])
        a3 == Aggregate(rd.cols[3])
    IN IF rd.raised # NotRaised THEN [raised |-> rd.raised, results |-> withKey]
       ELSE IF a1.raised # NotRaised THEN [raised |-> a1.raised, results |-> withKey]
       ELSE IF a2.raised # NotRaised
       THEN [raised |-> a2.raised,
             results |-> (key :> (metrics(p)[1] :> a1.value)) @@ res]
       ELSE IF a3.raised # NotRaised
       THEN [raised |-> a3.raised,
             results |-> (key :> (metrics(p)[1] :> a1.value
                                  @@ metrics(p)[2] :> a2.value)) @@ res]
       ELSE [raised |-> NotRaised,
             results |-> (key :> (metrics(p)[1] :> a1.value
                                  @@ metrics(p)[2] :> a2.value
                                  @@ metrics(p)[3] :> a3.value)) @@ res]

\* Load with the exception caught and the loops going on to the next file
LoadContinue ==
    /\ pc = "load"
    /\ \E file \in {DataFile(data, pass, s, t, k)}
                   \cup FaultyFiles(pass, DataFile(data, pass, s, t, k)) :
         LET r == LoadOne(results, file, pass, s, t, k)
             last == s = 2 /\ t = 2 /\ k = 2
         IN /\ csvfile' = file
            /\ results' = r.results
            /\ raised' = r.raised
            /\ opened' = Append(opened,
                   PathOf(pass, setups[s + 1], traces[t + 1], schedulers[k + 1]))
            /\ pc' = IF last THEN "flatten" ELSE "load"
            /\ k' = (k + 1) % 3
            /\ t' = IF k = 2 THEN (t + 1) % 3 ELSE t
            /\ s' = IF k = 2 /\ t = 2 THEN (s + 1) % 3 ELSE s
            /\ axes' = IF last THEN <<>> ELSE axes
    /\ UNCHANGED <<data, pass, i, avg, std, mn, mx, pdfs>>

\* Lines 20-37 and 110-127, one iteration of the innermost loop: open the
\* file of (s, t, k), read its columns and store their summaries.  The file
\* found on disk is that of the data set or a faulty one; every file is
\* opened once, so choosing it here is choosing the disk's content.
Load ==
    /\ pc = "load"
    /\ \E file \in {DataFile(data, pass, s, t, k)}
                   \cup FaultyFiles(pass, DataFile(data, pass, s, t, k)) :
         LET r == LoadOne(results, file, pass, s, t, k)
             ok == r.raised = NotRaised
             last == s = 2 /\ t = 2 /\ k = 2
         IN /\ csvfile' = file
            /\ results' = r.results
            /\ raised' = r.raised
            /\ opened' = Append(opened,
                   PathOf(pass, setups[s + 1], traces[t + 1], schedulers[k + 1]))
            /\ pc' = IF ~ok THEN "failed" ELSE IF last THEN "flatten" ELSE "load"
            /\ k' = IF ok THEN (k + 1) % 3 ELSE k
            /\ t' = IF ok /\ k = 2 THEN (t + 1) % 3 ELSE t
            /\ s' = IF ok /\ k = 2 /\ t = 2 THEN (s + 1) % 3 ELSE s
            \* line 53 (143): plt.subplots opens the first figure of the pass
            /\ axes' = IF ok /\ last THEN <<>> ELSE axes
    /\ UNCHANGED <<data, pass, i, avg, std, mn, mx, pdfs>>

(***************************************************************************)
(* One subplot: lines 56-87 and 146-173.                                   *)
(***************************************************************************)
\* lines 60-66 (150-156) from the x-th append on: metric by metric and,
\* within a metric, scheduler by scheduler, one element is appended to each
\* of the four lists
RECURSIVE AppendFrom(_, _, _, _, _, _)
AppendFrom(res, p, si, ti, x, a) ==
    IF x = 9 THEN a
    ELSE LET v == res[Triple(si, ti, x % 3)][metrics(p)[(x \div 3) + 1]]
         IN AppendFrom(res, p, si, ti, x + 1,
                       [avg |-> Append(a.avg, v[1]), std |-> Append(a.std, v[2]),
                        mn |-> Append(a.mn, v[3]), mx |-> Append(a.mx, v[4])])

\* lines 56-66 (146-156): the four lists of subplot (setup, trace)
Flatten(res, p, si, ti) ==
    AppendFrom(res, p, si, ti, 0, [avg |-> <<>>, std |-> <<>>, mn |-> <<>>, mx |-> <<>>])

\* q[g*3:(g+1)*3] /= m: the slice is divided element by element and written
\* back, the rest of the list is left alone
DivSlice(q, g, m) ==
    Slice(q, 0, g * 3)
    \o <<Div(q[g * 3 + 1], m), Div(q[g * 3 + 2], m), Div(q[g * 3 + 3], m)>>
    \o Slice(q, (g + 1) * 3, Len(q))

\* NormalizeGroup with the mx slice rewritten first: the three statements
\* after it then divide by the maximum of the rewritten slice
NormalizeGroupMxFirst(a, g) ==
    LET a1 == [a EXCEPT !.mx = DivSlice(a.mx, g, NpMax(Slice(a.mx, g * 3, (g + 1) * 3)))]
        a2 == [a1 EXCEPT !.avg = DivSlice(a1.avg, g, NpMax(Slice(a1.mx, g * 3, (g + 1) * 3)))]
        a3 == [a2 EXCEPT !.std = DivSlice(a2.std, g, NpMax(Slice(a2.mx, g * 3, (g + 1) * 3)))]
    IN [a3 EXCEPT !.mn = DivSlice(a3.mn, g, NpMax(Slice(a3.mn, g * 3, (g + 1) * 3)))]

\* NormalizeGroup dividing by the smallest mx value of the sub-group
NormalizeGroupByMin(a, g) ==
    LET m == NpMin(Slice(a.mx, g * 3, (g + 1) * 3))
    IN [avg |-> DivSlice(a.avg, g, m), std |-> DivSlice(a.std, g, m),
        mn |-> DivSlice(a.mn, g, m), mx |-> DivSlice(a.mx, g, m)]

\* lines 72-75 (158-161), one iteration of the loop: four statements in this
\* order, each taking np.max of the mx slice as it is when the statement runs
NormalizeGroup(a, g) ==
    LET a1 == [a EXCEPT !.avg = DivSlice(a.avg, g, NpMax(Slice(a.mx, g * 3, (g + 1) * 3)))]
        a2 == [a1 EXCEPT !.std = DivSlice(a1.std, g, NpMax(Slice(a1.mx, g * 3, (g + 1) * 3)))]
        a3 == [a2 EXCEPT !.mn = DivSlice(a2.mn, g, NpMax(Slice(a2.mx, g * 3, (g + 1) * 3)))]
    IN [a3 EXCEPT !.mx = DivSlice(a3.mx, g, NpMax(Slice(a3.mx, g * 3, (g + 1) * 3)))]

\* the offset .05 of the label above its cluster
LabelOffset == Rat(1, 20)

\* lines 76-78: the heights of the labels "CP", "WT" and "MS"
JobLabelHeights(m) ==
    <<AddConst(NpMax(Slice(m, 0, 2)), LabelOffset),
      IF ~IsNaN(NpMax(Slice(m, 3, 6)))
      THEN AddConst(NpMax(Slice(m, 3, 6)), LabelOffset)
      ELSE LabelOffset,
      AddConst(NpMax(Slice(m, 6, 9)), LabelOffset)>>

\* lines 162-164: the heights of the labels "EX", "WT" and "TA"
TaskLabelHeights(m) ==
    <<AddConst(NpMax(Slice(m, 0, 2)), LabelOffset),
      AddConst(NpMax(Slice(m, 3, 6)), LabelOffset),
      AddConst(NpMax(Slice(m, 6, 9)), LabelOffset)>>

LabelHeights(p, m) == IF p = "job" THEN JobLabelHeights(m) ELSE TaskLabelHeights(m)

\* lines 76-87 (162-173): what is drawn into the subplot of trace ti: the
\* labels, then the bar series MAX, AVG (with yerr = std) and MIN in this order
Subplot(p, ti, a) ==
    [trace |-> traces[ti + 1],
     text |-> metrics(p),
     heights |-> LabelHeights(p, a.mx),
     bars |-> <<a.mx, a.avg, a.mn>>,
     yerr |-> a.std]

Lists == [avg |-> avg, std |-> std, mn |-> mn, mx |-> mx]

SetLists(a) == /\ avg' = a.avg /\ std' = a.std /\ mn' = a.mn /\ mx' = a.mx

\* lines 56-66 (146-156)
FlattenStep ==
    /\ pc = "flatten"
    /\ SetLists(Flatten(results, pass, s, t))
    /\ i' = 0
    /\ pc' = "normalize"
    /\ UNCHANGED <<data, pass, s, t, k, results, axes, pdfs, opened, csvfile, raised>>

\* NormalizeStep on lists that alias the table: the normalized values are
\* written into results too
NormalizeStepAliased ==
    /\ pc = "normalize"
    /\ LET a == NormalizeGroup(Lists, i)
       IN /\ SetLists(a)
          /\ results' =
               [x \in DOMAIN results |->
                  IF x[1] = setups[s + 1] /\ x[2] = traces[t + 1]
                  THEN LET pos == i * 3 + IndexOf(schedulers, x[3]) + 1
                       IN [results[x] EXCEPT ![metrics(pass)[i + 1]] =
                             <<a.avg[pos], a.std[pos], a.mn[pos], a.mx[pos]>>]
                  ELSE results[x]]
    /\ i' = (i + 1) % 3
    /\ pc' = IF i = 2 THEN "draw" ELSE "normalize"
    /\ UNCHANGED <<data, pass, s, t, k, axes, pdfs, opened, csvfile, raised>>

\* lines 71-75 (157-161), one iteration
NormalizeStep ==
    /\ pc = "normalize"
    /\ SetLists(NormalizeGroup(Lists, i))
    /\ i' = (i + 1) % 3
    /\ pc' = IF i = 2 THEN "draw" ELSE "normalize"
    /\ UNCHANGED <<data, pass, s, t, k, results, axes, pdfs, opened, csvfile, raised>>

\* lines 76-87 (162-173), then the next trace or the end of the figure
DrawStep ==
    /\ pc = "draw"
    /\ axes' = Append(axes, Subplot(pass, t, Lists))
    /\ t' = (t + 1) % 3
    /\ pc' = IF t = 2 THEN "save" ELSE "flatten"
    /\ UNCHANGED <<data, pass, s, k, i, results, avg, std, mn, mx, pdfs, opened, csvfile, raised>>

\* the empty table of lines 18 and 108
EmptyTable == [x \in {} |-> <<>>]

\* lines 97-102 (183-188): the figure is written; then the next setup's figure
\* (line 53), the task pass (line 108 on) or the end of the script
SaveStep ==
    /\ pc = "save"
    /\ pdfs' = Append(pdfs, PdfName(pass, setups[s + 1]))
    /\ s' = (s + 1) % 3
    /\ IF s < 2
       THEN /\ pc' = "flatten" /\ axes' = <<>>
            /\ UNCHANGED <<pass, results>>
       ELSE IF pass = "job"
       THEN /\ pc' = "load" /\ pass' = "task" /\ results' = EmptyTable
            /\ UNCHANGED axes
       ELSE /\ pc' = "done"
            /\ UNCHANGED <<pass, results, axes>>
    /\ UNCHANGED <<data, t, k, i, avg, std, mn, mx, opened, csvfile, raised>>

(***************************************************************************)
(* The whole script, on data sets of one row per file.                     *)
(***************************************************************************)
OneRowData == [focus : Idx, cols : [Idx -> {<<v>> : v \in Vals}]]

Init ==
    /\ data \in OneRowData
    /\ pc = "load" /\ pass = "job"
    /\ s = 0 /\ t = 0 /\ k = 0 /\ i = 0
    /\ results = EmptyTable
    /\ NoLists
    /\ axes = <<>> /\ pdfs = <<>> /\ opened = <<>>
    /\ csvfile = Missing
    /\ raised = NotRaised

Next == Load \/ FlattenStep \/ NormalizeStep \/ DrawStep \/ SaveStep

Spec == Init /\ [][Next]_vars

(***************************************************************************)
(* One subplot on richer data: the script from the point where the table   *)
(* of a pass is complete and the first subplot is about to be built, up to *)
(* the moment that subplot is drawn.                                       *)
(***************************************************************************)
\* the summaries stored for a file of pass p that holds measurement r of d
SummariesOf(d, p, r) ==
    LoadOne(EmptyTable, DataFile(d, p, 0, 0, r), p, 0, 0, r).results[Triple(0, 0, r)]

\* the table after all 27 files of pass p were loaded from data set d: the
\* file of (si, ti, ki) holds measurement (ki + ti + si) % 3
TableOf(d, p) ==
    LET sums == <<SummariesOf(d, p, 0), SummariesOf(d, p, 1), SummariesOf(d, p, 2)>>
    IN [x \in AllTriples |->
          sums[((IndexOf(setups, x[1]) + IndexOf(traces, x[2])
                 + IndexOf(schedulers, x[3])) % 3) + 1]]

\* the paths opened by a whole pass, in the order of the loops
PathsOf(p) ==
    [j \in 1..27 |-> PathOf(p, setups[((j - 1) \div 9) + 1],
                            traces[(((j - 1) \div 3) % 3) + 1],
                            schedulers[((j - 1) % 3) + 1])]

\* the lists of subplot (si, ti) of table tab after the normalization loop
NormalizedLists(tab, p, si, ti) ==
    CHOOSE a3 \in {NormalizeGroup(a2, 2) :
                a2 \in {NormalizeGroup(a1, 1) :
                    a1 \in {NormalizeGroup(a0, 0) :
                        a0 \in {Flatten(tab, p, si, ti)}}}} : TRUE

\* the names of the PDFs of a whole pass, in the order they are written
PdfsOf(p) == [j \in 1..3 |-> PdfName(p, setups[j])]

\* the columns of at most n cells
Columns(n) == UNION {[1..m -> Vals] : m \in 1..n}

\* data sets in which measurement 0 has up to MaxRows rows and the other two
\* one row each
SubData ==
    {d \in [focus : Idx, cols : [Idx -> Columns(MaxRows)]] :
        Len(d.cols[1]) = 1 /\ Len(d.cols[2]) = 1}

\* the state after the last file of the pass was loaded and the first figure
\* of the pass was opened
SubInit ==
    /\ data \in SubData
    /\ pass \in Range(Passes)
    /\ pc = "flatten"
    /\ s = 0 /\ t = 0 /\ k = 0 /\ i = 0
    /\ results = TableOf(data, pass)
    /\ csvfile = DataFile(data, pass, 2, 2, 2)
    /\ raised = NotRaised
    /\ axes = <<>>
    /\ IF pass = "job"
       THEN /\ NoLists
            /\ pdfs = <<>>
            /\ opened = PathsOf("job")
       ELSE \E tab \in {TableOf(data, "job")} :
              \E a \in {NormalizedLists(tab, "job", 2, 2)} :
                /\ avg = a.avg /\ std = a.std /\ mn = a.mn /\ mx = a.mx
                /\ pdfs = PdfsOf("job")
                /\ opened = PathsOf("job") \o PathsOf("task")

SubNext == (FlattenStep \/ NormalizeStep \/ DrawStep) /\ t = 0

SubSpec == SubInit /\ [][SubNext]_vars

(***************************************************************************)
(* The aggregator on longer columns: the first file of the run.            *)
(***************************************************************************)
AggData ==
    {d \in [focus : Idx, cols : [Idx -> Columns(MaxLen)]] :
        d.cols[1] = <<0>> /\ d.cols[2] = <<0>>}

AggInit ==
    /\ data \in AggData
    /\ pc = "load" /\ pass = "job"
    /\ s = 0 /\ t = 0 /\ k = 0 /\ i = 0
    /\ results = EmptyTable
    /\ NoLists
    /\ axes = <<>> /\ pdfs = <<>> /\ opened = <<>>
    /\ csvfile = Missing
    /\ raised = NotRaised

AggNext == Load /\ opened = <<>>

AggSpec == AggInit /\ [][AggNext]_vars

\* the state in which the first subplot of a pass is about to be built is
\* the one SubInit describes
StartOfSubplots ==
    pc = "flatten" /\ s = 0 /\ t = 0 =>
        /\ results = TableOf(data, pass)
        /\ csvfile = DataFile(data, pass, 2, 2, 2)
        /\ raised = NotRaised
        /\ k = 0 /\ i = 0
        /\ opened = (IF pass = "job" THEN PathsOf("job")
                     ELSE PathsOf("job") \o PathsOf("task"))
        /\ axes = <<>>
        /\ IF pass = "job" THEN NoLists /\ pdfs = <<>>
           ELSE \E tab \in {TableOf(data, "job")} :
                  /\ Lists = NormalizedLists(tab, "job", 2, 2)
                  /\ pdfs = PdfsOf("job")

(***************************************************************************)
(* Properties of the normalizer and of the labels (SubSpec).               *)
(***************************************************************************)
Zero == Rat(0, 1)
One == Rat(1, 1)

\* the positions of metric sub-group g in a list of nine
Group(g) == {g * 3 + 1, g * 3 + 2, g * 3 + 3}

\* the largest mx value of the sub-group the normalization loop is at
StepMax == NpMax(Slice(mx, i * 3, (i + 1) * 3))

\* q2 is q divided by the positive rational m: q2 * m = q, stated on the
\* signed squares so that it covers the roots
IsQuotient(q2, q, m) ==
    /\ IsFin(q2)
    /\ RMul(SSq(q2), RMul(m, m)) = SSq(q)

\* x lies in [0, 1]
InUnit(x) == IsFin(x) /\ Leq(Zero, x) /\ Leq(x, One)

\* the four lists of the current subplot as they were before normalization
RawLists == Flatten(results, pass, s, t)

\* every value of sub-group g is zero before normalization
AllZero(g) ==
    \A x \in Group(g) :
        /\ RawLists.avg[x] = Zero /\ RawLists.std[x] = Zero
        /\ RawLists.mn[x] = Zero /\ RawLists.mx[x] = Zero

\* every column of sub-group g holds non-negative integers only
NonNegative(g) == \A x \in Group(g) : Leq(Zero, RawLists.mn[x])

\* every normalized value of sub-group g lies in [0, 1] and an mx value is 1
UnitGroup(g) ==
    /\ \A x \in Group(g) :
          InUnit(avg[x]) /\ InUnit(std[x]) /\ InUnit(mn[x]) /\ InUnit(mx[x])
    /\ \E x \in Group(g) : mx[x] = One

\* C1: in both passes, normalizing a sub-group whose largest mx value m is
\* positive replaces every element of the sub-group in avg, std, mn and mx by
\* its value divided by that m (the m of before the step), turns the mx
\* element equal to m into exactly 1 and leaves the other two sub-groups as
\* they were.
C1_NormalizeDividesByMax ==
    [][pc = "normalize" /\ IsFin(StepMax) /\ StepMax.n > 0 =>
        \A x \in 1..9 :
            IF x \in Group(i)
            THEN /\ IsQuotient(avg'[x], avg[x], StepMax)
                 /\ IsQuotient(std'[x], std[x], StepMax)
                 /\ IsQuotient(mn'[x], mn[x], StepMax)
                 /\ IsQuotient(mx'[x], mx[x], StepMax)
                 /\ (mx[x] = StepMax => mx'[x] = One)
            ELSE /\ avg'[x] = avg[x] /\ std'[x] = std[x]
                 /\ mn'[x] = mn[x] /\ mx'[x] = mx[x]]_vars

\* a task subplot is normalized: in the first sub-group an mx value is 1, an
\* average is a proper fraction and a standard deviation is not zero
C1_Witness ==
    /\ pc = "draw" /\ pass = "task"
    /\ \E x \in Group(0) : mx[x] = One
    /\ \E x \in Group(0) : IsFin(avg[x]) /\ avg[x].d > 1 /\ avg[x].n > 0
    /\ \E x \in Group(0) : IsFin(std[x]) /\ std[x].n > 0

\* C2 as stated: whatever integers the columns hold, after normalization
\* every value of a sub-group lies in [0, 1] and an mx value of it is 1,
\* unless all values of the sub-group are zero.
C2_UnitIntervalAnyIntegers ==
    pc = "draw" => \A g \in Idx : AllZero(g) \/ UnitGroup(g)

\* C2 amended: for columns of non-negative integers, after normalization
\* every value of a sub-group lies in [0, 1] and an mx value of it is 1,
\* unless all values of the sub-group are zero.
C2_UnitIntervalNonNegative ==
    pc = "draw" => \A g \in Idx : NonNegative(g) => AllZero(g) \/ UnitGroup(g)

\* the sub-group that varies holds no negative cell, is not all zero and has,
\* after normalization, a standard deviation that is not zero, an average
\* strictly between 0 and 1 and an mx value of 1
C2_Witness ==
    /\ pc = "draw"
    /\ NonNegative(data.focus) /\ ~AllZero(data.focus)
    /\ \E x \in Group(data.focus) : IsFin(std[x]) /\ std[x].n > 0
    /\ \E x \in Group(data.focus) : IsFin(avg[x]) /\ avg[x].n > 0 /\ avg[x].d > 1
    /\ \E x \in Group(data.focus) : mx[x] = One

\* what x / 0 is in IEEE arithmetic
OverZero(x) == IF x.n = 0 THEN NaN ELSE IF x.n > 0 THEN PInf ELSE NInf

\* C3 as stated: whenever the largest mx value of a sub-group is zero, every
\* element of the sub-group in avg, std, mn and mx is NaN after the step,
\* whatever integers the columns hold.
C3_ZeroMaxAllNaN ==
    [][pc = "normalize" /\ StepMax = Zero =>
        \A x \in Group(i) :
            IsNaN(avg'[x]) /\ IsNaN(std'[x]) /\ IsNaN(mn'[x]) /\ IsNaN(mx'[x])]_vars

\* C3 amended: whenever the largest mx value of a sub-group is zero, the step
\* turns every element of the sub-group that is zero into NaN, every positive
\* one into +inf and every negative one into -inf (so all of them into NaN
\* when all values of the sub-group are zero); no error is raised and the run
\* goes on to the next sub-group or to the drawing.
C3_ZeroMaxNaNOrInf ==
    [][pc = "normalize" /\ StepMax = Zero =>
        /\ \A x \in Group(i) :
              /\ avg'[x] = OverZero(avg[x]) /\ std'[x] = OverZero(std[x])
              /\ mn'[x] = OverZero(mn[x]) /\ mx'[x] = OverZero(mx[x])
        /\ AllZero(i) => \A x \in Group(i) :
              IsNaN(avg'[x]) /\ IsNaN(std'[x]) /\ IsNaN(mn'[x]) /\ IsNaN(mx'[x])
        /\ raised' = NotRaised
        /\ pc' = (IF i = 2 THEN "draw" ELSE "normalize")]_vars

\* a sub-group with largest mx value zero was normalized: it holds NaN, +inf
\* and -inf
C3_Witness ==
    /\ pc = "draw"
    /\ RawLists.mx[data.focus * 3 + 1] = Zero
    /\ \E x \in Group(data.focus) : IsNaN(mx[x])
    /\ \E x \in Group(data.focus) : std[x] = PInf
    /\ \E x \in Group(data.focus) : mn[x] = NInf

\* the subplot of the lists in avg, std, mn and mx has just been drawn
JustDrawn == pc \in {"flatten", "save"} /\ axes # <<>>

\* C4: in both passes the label of each of the three clusters is placed .05
\* above the tallest normalized max bar of the cluster, over all three
\* schedulers, when the cluster's values are not NaN (stated here for columns
\* of non-negative integers only).
C4_LabelAboveTallestBar ==
    JustDrawn =>
        \A g \in Idx :
            LET tallest == NpMax(Slice(mx, g * 3, (g + 1) * 3))
            IN NonNegative(g) /\ ~IsNaN(tallest) =>
                 axes[Len(axes)].heights[g + 1] = AddConst(tallest, LabelOffset)

\* the same lists drawn by the job pass and by the task pass
SameDrawing(a, b) ==
    a.heights = b.heights /\ a.bars = b.bars /\ a.yerr = b.yerr

\* C8: on the same numbers the job pass and the task pass draw the same
\* series and put the three labels at the same heights, also when a
\* sub-group's maximum is zero (stated here for columns of non-negative
\* integers only).
C8_PassesDrawTheSame ==
    pc = "draw" /\ (\A g \in Idx : NonNegative(g)) =>
        SameDrawing(Subplot("job", t, Lists), Subplot("task", t, Lists))

(***************************************************************************)
(* Properties of the whole run (Spec).                                     *)
(***************************************************************************)
\* the file opened last exists and has no rows
EmptyCsv == opened # <<>> /\ csvfile.exists /\ csvfile.rows = <<>>

\* the names of the PDFs a pass writes
JobPdfs == <<"setup_job.pdf", "setup-heterogeneous_job.pdf", "setup-distributed_job.pdf">>
TaskPdfs == <<"setup_task.pdf", "setup-heterogeneous_task.pdf", "setup-distributed_task.pdf">>

\* no PDF of the current pass is written
NoPdfOfPass == pdfs = (IF pass = "job" THEN <<>> ELSE JobPdfs)

\* C5: when a CSV file of a pass has no rows the run raises while aggregating
\* that file, stores no summary for it, and no PDF of that pass is written.
C5_EmptyCsvRaises ==
    EmptyCsv =>
        /\ pc = "failed"
        /\ raised = Raised("ValueError", "np.min")
        /\ results[Triple(s, t, k)] = <<>>
        /\ NoPdfOfPass

\* a file of the task pass without rows ended the run after the job pass
C5_Witness ==
    /\ EmptyCsv /\ pass = "task" /\ pc = "failed"
    /\ pdfs = JobPdfs
    /\ Len(opened) > 30

\* the file opened last is one of those the loader or the aggregator rejects
FaultyCsv ==
    \/ ~csvfile.exists
    \/ csvfile.rows = <<>>
    \/ \E c \in Range(columns(pass)) : c \notin csvfile.header
    \/ \E j \in 1..Len(csvfile.rows) :
          \E c \in Range(columns(pass)) \cap csvfile.header : ~csvfile.rows[j][c].int

\* the number of steps the run has taken when no exception ended it: a pass
\* is 27 loads and, for each setup, three subplots of five steps and a save
StepsTaken ==
    (IF pass = "job" THEN 0 ELSE 75)
    + (CASE pc = "load" -> s * 9 + t * 3 + k
         [] pc = "flatten" -> 27 + s * 16 + t * 5
         [] pc = "normalize" -> 27 + s * 16 + t * 5 + 1 + i
         [] pc = "draw" -> 27 + s * 16 + t * 5 + 4
         [] pc = "save" -> 27 + s * 16 + 15
         [] OTHER -> 75)

\* what the next statement reads is there: the summaries of the subplot's
\* three files under every metric when its lists are built, nine elements in
\* each list when they are normalized or drawn, three subplots when the
\* figure is saved; so no KeyError or IndexError stops a run in these places
CanStep ==
    /\ pc \in {"load", "flatten", "normalize", "draw", "save", "done", "failed"}
    /\ s \in Idx /\ t \in Idx /\ k \in Idx /\ i \in Idx
    /\ pc = "flatten" =>
          \A ki \in Idx :
              /\ Triple(s, t, ki) \in DOMAIN results
              /\ Range(metrics(pass)) \subseteq DOMAIN results[Triple(s, t, ki)]
              /\ \A m \in Range(metrics(pass)) : Len(results[Triple(s, t, ki)][m]) = 4
    /\ pc \in {"normalize", "draw"} =>
          Len(avg) = 9 /\ Len(std) = 9 /\ Len(mn) = 9 /\ Len(mx) = 9
    /\ pc = "save" => Len(axes) = 3

\* C6: when all 54 files exist with the required integer columns and a row or
\* more, the run terminates having written the six PDFs, each once.  Every
\* step that does not end the run takes it one step further along the 150
\* steps of the script and a run that has not ended finds what its next
\* statement reads, so the run ends; it ends in failure only on a faulty
\* file, and it ends otherwise with all 54 files opened and exactly the six
\* names written in order.
C6_SixPdfs ==
    /\ [][pc' # "failed" => StepsTaken' = StepsTaken + 1]_vars
    /\ [](StepsTaken <= 150)
    /\ [](CanStep)
    /\ [](pc = "failed" => FaultyCsv)
    /\ [](pc = "done" => Len(opened) = 54 /\ pdfs = JobPdfs \o TaskPdfs)

\* the run is over, six PDFs are written and the last subplot held a
\* sub-group whose maximum was zero
C6_Witness ==
    /\ pc = "done" /\ Len(pdfs) = 6
    /\ \E x \in 1..9 : IsNaN(mx[x])

\* C7 as stated: a failure while a setup's files are read leaves no PDF for
\* that setup.
C7_NoPdfForFailingSetup ==
    pc = "failed" =>
        \A x \in 1..Len(pdfs) :
            pdfs[x] \notin {setups[s + 1] \o "_job.pdf", setups[s + 1] \o "_task.pdf"}

\* C7 amended: an exception of the loader or the aggregator ends the run;
\* after it no file is opened and no PDF is written; it can only occur while
\* a pass reads its files, so no PDF of that pass exists for any setup, and a
\* failure of the task pass leaves the three PDFs of the job pass (that of
\* the failing setup included) as written.
C7_FailureEndsRun ==
    /\ [](raised # NotRaised => pc = "failed")
    /\ [](pc = "failed" => raised # NotRaised /\ NoPdfOfPass)
    /\ [][pc = "failed" => opened' = opened /\ pdfs' = pdfs]_vars

\* a file of the second setup without a required column ended the task pass
C7_Witness ==
    /\ pc = "failed" /\ pass = "task" /\ s = 1
    /\ raised = Raised("KeyError", "int(row[...])")
    /\ pdfs = JobPdfs

\* the lists are being normalized or drawn
Rendering == pc \in {"flatten", "normalize", "draw", "save"}

\* C10: within a pass the table holds a summary of all three metrics for all
\* 27 triples before the first figure is built, the files are opened in the
\* order setups, traces, schedulers, and building, normalizing, drawing and
\* saving figures never changes the table of the pass.
C10_TableCompleteAndFrozen ==
    /\ [](Rendering =>
            /\ DOMAIN results = AllTriples
            /\ \A x \in AllTriples : DOMAIN results[x] = Range(metrics(pass)))
    /\ [](opened = SubSeq(PathsOf("job") \o PathsOf("task"), 1, Len(opened)))
    /\ [][Rendering /\ pass' = pass => results' = results]_vars

\* the last subplot of the task pass is normalized: its lists differ from
\* the table, which is still complete
C10_Witness ==
    /\ pc = "draw" /\ pass = "task" /\ s = 2 /\ t = 2
    /\ DOMAIN results = AllTriples
    /\ mx # RawLists.mx
    /\ Len(opened) = 54

(***************************************************************************)
(* Properties of the aggregator (AggSpec).                                 *)
(***************************************************************************)
\* column g of the file opened last
CsvColumn(g) ==
    [j \in 1..Len(csvfile.rows) |-> csvfile.rows[j][columns(pass)[g]].v]

RECURSIVE SumSquares(_)
SumSquares(S) == IF S = <<>> THEN 0 ELSE Head(S) * Head(S) + SumSquares(Tail(S))

\* C9: the summary [mean, std, min, max] stored for a non-empty column S has
\* max >= mean >= min and std >= 0, its mean is sum(S) / n and its std is the
\* population standard deviation, std^2 = (n * sum(x^2) - sum(x)^2) / n^2.
C9_SummaryOrdered ==
    pc # "failed" /\ opened # <<>> =>
        \A g \in 1..3 :
            LET S == CsvColumn(g)
                n == Len(S)
                v == results[Triple(0, 0, 0)][metrics(pass)[g]]
            IN /\ Leq(v[3], v[1]) /\ Leq(v[1], v[4])
               /\ Leq(Zero, v[2])
               /\ \A j \in 1..n : Leq(v[3], Rat(S[j], 1)) /\ Leq(Rat(S[j], 1), v[4])
               /\ v[1].n * n = SumInts(S) * v[1].d
               /\ SSq(v[2]) = Rat(n * SumSquares(S) - SumInts(S) * SumInts(S), n * n)

\* a stored summary has a mean that is no integer and a standard deviation
\* that is no rational
C9_Witness ==
    /\ pc = "load" /\ opened # <<>>
    /\ \E g \in 1..3 :
          LET v == results[Triple(0, 0, 0)][metrics(pass)[g]]
          IN v[1].d > 1 /\ v[2].rt /\ v[3] # v[4]
====
